---- MODULE Spec2Model ----
(***************************************************************************)
(* Model of tsl_and_tp.py: the trailing stop-loss / take-profit polling    *)
(* loop of the 3Commas bot helper.                                         *)
(*                                                                         *)
(* Percentages are decimal numbers with two places; the model holds them   *)
(* as integers counted in hundredths of a percent (3.0 is 300).  The       *)
(* tp-increment-factor is counted in units of 1/FactorScale (0.5 is 5000), *)
(* so a percentage times the factor is counted in units of                 *)
(* 1/(100*FactorScale) and round(x, 2) takes it back to hundredths.        *)
(*                                                                         *)
(* The sqlite3 connection `db` runs with the default isolation level: the  *)
(* first INSERT/UPDATE/DELETE opens a transaction and db.commit() ends it. *)
(* `db` is the table as the connection sees it (uncommitted changes        *)
(* included), `persisted` is the table as the file holds it.               *)
(***************************************************************************)
EXTENDS Integers, Sequences, FiniteSets, TLC

(* ------------------------------ bounds -------------------------------- *)
\* polling cycles started
MaxCycles == 2
\* disturbances of a run, counted together: remote calls (bots/show,
\* deals/update_deal) that fail, kills of the process followed by a restart,
\* edits of the .ini file between two reloads
MaxDisturbances == 1

(* ------------------------- configuration ------------------------------ *)
\* botids of the configuration file, in the order the loop walks them
botids == <<11, 12>>

\* the unit of tp_increment_factor: four decimal places
FactorScale == 10000

\* the settings a reload can find in the .ini file: the defaults written
\* by load_config (3.0, 1.0, 0.5), and an edited file (5.0, 0.5, 0.333)
Configs ==
    { [activation_percentage |-> 300, initial_stoploss_percentage |-> 100,
       tp_increment_factor |-> 5000, check_interval |-> 120, monitor_interval |-> 60],
      [activation_percentage |-> 500, initial_stoploss_percentage |-> 50,
       tp_increment_factor |-> 3330, check_interval |-> 120, monitor_interval |-> 60] }

(* --------------------------- the platform ----------------------------- *)
\* deal ids of the platform and the bot each deal belongs to
Deals == {1, 2, 3}
DealBot(d) == IF d = 3 THEN 12 ELSE 11

\* values of actual_profit_percentage a fetch can report
ProfitValues == {300, 500, 700}
\* stop_loss_percentage and take_profit of a deal the agent never touched
StopLossValues == {0}
TakeProfitValues == {200}

(* ----------------------------- helpers -------------------------------- *)
RECURSIVE SortedSeq(_)
SortedSeq(S) ==
    IF S = {} THEN <<>>
    ELSE LET m == CHOOSE x \in S : \A y \in S : x <= y
         IN <<m>> \o SortedSeq(S \ {m})

SeqToSet(s) == {s[i] : i \in 1..Len(s)}

\* round(x, 2) for x counted in units of 1/(100*FactorScale), in hundredths.
\* A float that lies half way between two 2-decimal values rounds by its
\* binary representation, to either neighbour, so the result is a set of
\* admissible values.
Round2(x) ==
    LET q == x \div FactorScale
        r == x % FactorScale
    IN  IF 2 * r < FactorScale THEN {q}
        ELSE IF 2 * r > FactorScale THEN {q + 1}
        ELSE {q, q + 1}

\* check_deal(cursor, deal_id): the row of the deal, or nothing
check_deal(table, deal_id) ==
    IF deal_id \in DOMAIN table THEN <<table[deal_id]>> ELSE <<>>

VARIABLES
    pc,               \* position of the program
    config,           \* settings loaded by the current cycle
    cycles,           \* number of cycles started
    failures,         \* number of remote calls that failed
    interrupts,       \* number of times the process was killed and restarted
    edits,            \* number of reloads that found an edited file
    platform,         \* per deal: status, stop_loss_percentage, take_profit
    db,               \* deals table as seen by the connection
    persisted,        \* deals table as committed to the file
    botIdx,           \* index into botids of the main loop
    thebot,           \* botdata handed to process_deals
    dealIdx,          \* index into thebot.active_deals
    current_deals,    \* ids collected for the housekeeping DELETE
    monitored_deals,  \* local of process_deals
    deals_to_monitor, \* accumulator of the main loop
    timeint,          \* interval handed to wait_time_interval
    log,              \* remote updates and statements of this call of process_deals
    fetches,          \* per bot: number of "bots/show" requests in this cycle
    skipped,          \* bots whose fetch failed in this cycle
    need              \* positions of this cycle that were activated or tracked

vars == <<pc, config, cycles, failures, interrupts, edits, platform, db, persisted, botIdx,
          thebot, dealIdx, current_deals, monitored_deals, deals_to_monitor,
          timeint, log, fetches, skipped, need>>

Disturbances == failures + interrupts + edits

\* the settings of lines 267-278 are not assigned before the first iteration
NotLoaded == [activation_percentage |-> 0, initial_stoploss_percentage |-> 0,
              tp_increment_factor |-> 0, check_interval |-> 0, monitor_interval |-> 0]
NoBot == [id |-> 0, active_deals |-> <<>>]
EmptyTable == [d \in {} |-> 0]
BotSet == SeqToSet(botids)

Init ==
    /\ pc = "load"
    /\ config = NotLoaded
    /\ cycles = 0
    /\ failures = 0
    /\ interrupts = 0
    /\ edits = 0
    /\ platform \in [Deals -> [status : {"open"},
                               stop_loss_percentage : StopLossValues,
                               take_profit : TakeProfitValues]]
    /\ db = EmptyTable
    /\ persisted = EmptyTable
    /\ botIdx = 1
    /\ thebot = NoBot
    /\ dealIdx = 1
    /\ current_deals = <<>>
    /\ monitored_deals = 0
    /\ deals_to_monitor = 0
    /\ timeint = 0
    /\ log = <<>>
    /\ fetches = [b \in BotSet |-> 0]
    /\ skipped = {}
    /\ need = 0

\* lines 263-280: reload the configuration and reset the accumulator
LoadConfig ==
    /\ pc = "load"
    /\ cycles < MaxCycles
    /\ \E cfg \in Configs :
          LET edited == config # NotLoaded /\ cfg # config
          IN  /\ edited => Disturbances < MaxDisturbances
              /\ edits' = IF edited THEN edits + 1 ELSE edits
              /\ config' = cfg
    /\ cycles' = cycles + 1
    /\ deals_to_monitor' = 0
    /\ botIdx' = 1
    /\ pc' = IF Len(botids) >= 1 THEN "fetch" ELSE "wait"
    /\ log' = <<>>
    /\ fetches' = [b \in BotSet |-> 0]
    /\ skipped' = {}
    /\ need' = 0
    /\ UNCHANGED <<failures, interrupts, platform, db, persisted, thebot,
                   dealIdx, current_deals, monitored_deals, timeint>>

DealsOf(b) == {d \in Deals : DealBot(d) = b}

\* what the platform may have done to a deal since the bot was last fetched:
\* an open deal closes, a closed deal stays closed
NextStatus(st) == IF st = "open" THEN {"open", "closed"} ELSE {"closed"}

\* the "active_deals" of the answer to bots/show, ordered by deal id
ActiveDeals(plat, b, profit) ==
    LET open == SortedSeq({d \in DealsOf(b) : plat[d].status = "open"})
    IN  [i \in 1..Len(open) |->
            [id |-> open[i],
             actual_profit_percentage |-> profit[open[i]],
             stop_loss_percentage |-> plat[open[i]].stop_loss_percentage,
             take_profit |-> plat[open[i]].take_profit]]

\* lines 283-295 with the error of the fetch raised: the process ends
FetchFailedStops ==
    /\ pc = "fetch"
    /\ Disturbances < MaxDisturbances
    /\ failures' = failures + 1
    /\ LET bot == botids[botIdx]
       IN  /\ fetches' = [fetches EXCEPT ![bot] = @ + 1]
           /\ skipped' = skipped \cup {bot}
    /\ botIdx' = botIdx + 1
    /\ pc' = "stopped"
    /\ UNCHANGED <<config, cycles, interrupts, edits, platform, db, persisted,
                   thebot, dealIdx, current_deals, monitored_deals,
                   deals_to_monitor, timeint, log, need>>

\* lines 283-295 with a break in the else branch: the bots that follow the
\* failed one are left out of the cycle
FetchFailedAborts ==
    /\ pc = "fetch"
    /\ Disturbances < MaxDisturbances
    /\ failures' = failures + 1
    /\ LET bot == botids[botIdx]
       IN  /\ fetches' = [fetches EXCEPT ![bot] = @ + 1]
           /\ skipped' = skipped \cup {bot}
    /\ botIdx' = botIdx + 1
    /\ pc' = "wait"
    /\ UNCHANGED <<config, cycles, interrupts, edits, platform, db, persisted,
                   thebot, dealIdx, current_deals, monitored_deals,
                   deals_to_monitor, timeint, log, need>>

\* lines 283-295, the else branch: the fetch failed, the bot is skipped
FetchFailed ==
    /\ pc = "fetch"
    /\ Disturbances < MaxDisturbances
    /\ failures' = failures + 1
    /\ LET bot == botids[botIdx]
       IN  /\ fetches' = [fetches EXCEPT ![bot] = @ + 1]
           /\ skipped' = skipped \cup {bot}
    /\ botIdx' = botIdx + 1
    /\ pc' = IF botIdx < Len(botids) THEN "fetch" ELSE "wait"
    /\ UNCHANGED <<config, cycles, interrupts, edits, platform, db, persisted,
                   thebot, dealIdx, current_deals, monitored_deals,
                   deals_to_monitor, timeint, log, need>>

\* lines 284-290 and 80-85: the fetch answered; process_deals starts
FetchBot ==
    /\ pc = "fetch"
    /\ LET bot == botids[botIdx]
       IN  \E st \in [DealsOf(bot) -> {"open", "closed"}],
              profit \in [DealsOf(bot) -> ProfitValues] :
             /\ \A d \in DealsOf(bot) : st[d] \in NextStatus(platform[d].status)
             \* the answer carries no profit for a deal that is not open
             /\ \A d \in DealsOf(bot) :
                    st[d] # "open" => profit[d] = CHOOSE p \in ProfitValues : TRUE
             /\ platform' =
                  [d \in Deals |->
                     IF d \notin DealsOf(bot) THEN platform[d]
                     ELSE [platform[d] EXCEPT !.status = st[d]]]
             /\ thebot' = [id |-> bot, active_deals |-> ActiveDeals(platform', bot, profit)]
             /\ fetches' = [fetches EXCEPT ![bot] = @ + 1]
    /\ monitored_deals' = 0
    /\ current_deals' = <<>>
    /\ dealIdx' = 1
    /\ pc' = IF Len(thebot'.active_deals) > 0 THEN "deal" ELSE "return"
    /\ UNCHANGED <<config, cycles, failures, interrupts, edits, db, persisted,
                   botIdx, deals_to_monitor, timeint, log, skipped, need>>

(* ------------------------- process_deals ------------------------------ *)
\* line 97 with > for >=: a deal exactly at the activation percentage is left out
NewDealQualifiesStrict(existing_deal, actual_profit_percentage, activation_percentage) ==
    existing_deal = <<>> /\ actual_profit_percentage > activation_percentage

\* line 97 without "not existing_deal": a tracked deal is inserted again
NewDealQualifiesAlways(existing_deal, actual_profit_percentage, activation_percentage) ==
    actual_profit_percentage >= activation_percentage

\* line 97: a deal without a row that reached the activation percentage
NewDealQualifies(existing_deal, actual_profit_percentage, activation_percentage) ==
    existing_deal = <<>> /\ actual_profit_percentage >= activation_percentage

\* lines 101-104 without activation_diff: the stop-loss of the configuration
InitialStopLossFixed(actual_profit_percentage, activation_percentage, initial_stoploss_percentage) ==
    {0 - r : r \in Round2(initial_stoploss_percentage * FactorScale)}

\* lines 101-104: the first stop-loss of a newly tracked deal
InitialStopLoss(actual_profit_percentage, activation_percentage, initial_stoploss_percentage) ==
    LET activation_diff == actual_profit_percentage - activation_percentage
    IN  {0 - r : r \in Round2((initial_stoploss_percentage + activation_diff)
                                   * FactorScale)}

\* lines 107-111 and 142-144: the take-profit raised by diff times the factor
RaisedTakeProfit(take_profit, diff, tp_increment_factor) ==
    Round2(take_profit * FactorScale + diff * tp_increment_factor)

\* line 128 with >= for >: an unchanged profit moves the stop-loss again
ProfitIncreasedOrEqual(actual_profit_percentage, last_profit_percentage) ==
    actual_profit_percentage >= last_profit_percentage

\* line 128: the profit rose above the recorded one
ProfitIncreased(actual_profit_percentage, last_profit_percentage) ==
    actual_profit_percentage > last_profit_percentage

\* line 141 with + for -: the stop-loss moves the wrong way
TrailedStopLossRaised(actual_stoploss, profit_diff) ==
    Round2((actual_stoploss + profit_diff) * FactorScale)

\* line 141: the stop-loss reported by the platform moved by the profit gained
TrailedStopLoss(actual_stoploss, profit_diff) ==
    Round2((actual_stoploss - profit_diff) * FactorScale)

\* lines 98, 125, 129 with += for = +: the deals are counted
MonitoredAccumulated(monitored) == monitored + 1

\* lines 98, 125, 129: monitored_deals = +1
Monitored(monitored) == 1

\* lines 51-60: the request update_deal sends
UpdateRequest(bot, d, new_stoploss, new_take_profit, ok) ==
    [op |-> "update_deal",
     action_id |-> d.id,
     deal_id |-> bot.id,
     stop_loss_percentage |-> new_stoploss,
     take_profit |-> new_take_profit,
     ok |-> ok]

\* the platform applies an update it accepts to the deal the request addresses
PlatformAfter(plat, req) ==
    IF req.ok
    THEN [plat EXCEPT ![req.action_id] =
             [@ EXCEPT !.stop_loss_percentage = req.stop_loss_percentage,
                       !.take_profit = req.take_profit]]
    ELSE plat

\* lines 115-118 with the stop-loss stored as a distance, without its sign
InsertUnsigned(table, dealid, botid, last_profit_percentage, last_stop_loss_percentage) ==
    [d \in DOMAIN table \cup {dealid} |->
        IF d = dealid
        THEN [botid |-> botid,
              last_profit_percentage |-> last_profit_percentage,
              last_stop_loss_percentage |-> 0 - last_stop_loss_percentage]
        ELSE table[d]]

\* lines 115-118: INSERT INTO deals ... VALUES (...)
Insert(table, dealid, botid, last_profit_percentage, last_stop_loss_percentage) ==
    [d \in DOMAIN table \cup {dealid} |->
        IF d = dealid
        THEN [botid |-> botid,
              last_profit_percentage |-> last_profit_percentage,
              last_stop_loss_percentage |-> last_stop_loss_percentage]
        ELSE table[d]]

\* lines 148-152 without last_profit_percentage in the SET clause
UpdateStopLossOnly(table, dealid, last_profit_percentage, last_stop_loss_percentage) ==
    [d \in DOMAIN table |->
        IF d = dealid
        THEN [table[d] EXCEPT !.last_stop_loss_percentage = last_stop_loss_percentage]
        ELSE table[d]]

\* lines 148-152: UPDATE deals SET ... WHERE dealid = ...
Update(table, dealid, last_profit_percentage, last_stop_loss_percentage) ==
    [d \in DOMAIN table |->
        IF d = dealid
        THEN [table[d] EXCEPT !.last_profit_percentage = last_profit_percentage,
                              !.last_stop_loss_percentage = last_stop_loss_percentage]
        ELSE table[d]]

\* lines 166-168 left out: nothing is deleted
DeleteNothing(table, botid, keep) == table

\* lines 166-168: DELETE FROM deals WHERE botid = ... AND dealid NOT IN (...)
DeleteExcept(table, botid, keep) ==
    [d \in {x \in DOMAIN table : ~(table[x].botid = botid /\ x \notin SeqToSet(keep))}
        |-> table[d]]

\* lines 115, 148, 166 on a connection in autocommit mode
FileAfterExecuteAutocommit(file, table) == table

\* lines 115, 148, 166: db.execute runs inside the transaction the connection
\* opened; the file keeps what was committed last
FileAfterExecute(file, table) == file

\* line 170: db.commit() writes the transaction to the file
FileAfterCommit(file, table) == table

\* the entry of the log for a statement
Statement(op, dealid) == [op |-> op, dealid |-> dealid]

\* lines 46-74 with a second request after a failed one, then the statement
UpdateThenStoreRetried(op, d, new_stoploss, new_take_profit, ok) ==
    LET req == UpdateRequest(thebot, d, new_stoploss, new_take_profit, ok)
    IN  /\ ~ok => Disturbances < MaxDisturbances
        /\ failures' = IF ok THEN failures ELSE failures + 1
        /\ platform' = PlatformAfter(platform, req)
        /\ log' = IF ok THEN log \o <<req, Statement(op, d.id)>>
                  ELSE log \o <<req, req, Statement(op, d.id)>>
        /\ db' = IF op = "insert"
                 THEN Insert(db, d.id, thebot.id, d.actual_profit_percentage,
                             new_stoploss)
                 ELSE Update(db, d.id, d.actual_profit_percentage, new_stoploss)
        /\ persisted' = FileAfterExecute(persisted, db')

\* lines 46-74 followed by lines 115-118 or 148-152: update_deal returns
\* nothing, whatever the platform answered, and the statement follows it
UpdateThenStore(op, d, new_stoploss, new_take_profit, ok) ==
    LET req == UpdateRequest(thebot, d, new_stoploss, new_take_profit, ok)
    IN  /\ ~ok => Disturbances < MaxDisturbances
        /\ failures' = IF ok THEN failures ELSE failures + 1
        /\ platform' = PlatformAfter(platform, req)
        /\ log' = log \o <<req, Statement(op, d.id)>>
        /\ db' = IF op = "insert"
                 THEN Insert(db, d.id, thebot.id, d.actual_profit_percentage,
                             new_stoploss)
                 ELSE Update(db, d.id, d.actual_profit_percentage, new_stoploss)
        /\ persisted' = FileAfterExecute(persisted, db')

\* lines 87-157: one iteration of the for loop
ProcessDeal ==
    /\ pc = "deal"
    /\ LET d == thebot.active_deals[dealIdx]
           actual_profit_percentage == d.actual_profit_percentage
           existing_deal == check_deal(db, d.id)
         IN  /\ current_deals' = Append(current_deals, d.id)
             /\ IF NewDealQualifies(existing_deal, actual_profit_percentage,
                                    config.activation_percentage)
                THEN /\ monitored_deals' = Monitored(monitored_deals)
                     /\ need' = need + 1
                     /\ \E new_stoploss \in InitialStopLoss(actual_profit_percentage,
                                                config.activation_percentage,
                                                config.initial_stoploss_percentage),
                           new_take_profit \in RaisedTakeProfit(d.take_profit,
                                                actual_profit_percentage
                                                  - config.activation_percentage,
                                                config.tp_increment_factor),
                           ok \in BOOLEAN :
                          UpdateThenStore("insert", d, new_stoploss, new_take_profit, ok)
                ELSE IF existing_deal # <<>>
                THEN LET last_profit_percentage ==
                             existing_deal[1].last_profit_percentage
                         profit_diff == actual_profit_percentage - last_profit_percentage
                     IN  /\ need' = need + 1
                         /\ IF ProfitIncreased(actual_profit_percentage,
                                               last_profit_percentage)
                            THEN /\ monitored_deals' =
                                        Monitored(Monitored(monitored_deals))
                                 /\ \E new_stoploss \in
                                          TrailedStopLoss(d.stop_loss_percentage,
                                                          profit_diff),
                                       new_take_profit \in
                                          RaisedTakeProfit(d.take_profit, profit_diff,
                                                           config.tp_increment_factor),
                                       ok \in BOOLEAN :
                                      UpdateThenStore("update", d, new_stoploss,
                                                      new_take_profit, ok)
                            ELSE /\ monitored_deals' = Monitored(monitored_deals)
                                 /\ UNCHANGED <<platform, log, db, persisted, failures>>
                ELSE UNCHANGED <<monitored_deals, need, platform, log, db, persisted,
                                 failures>>
    /\ pc' = IF dealIdx < Len(thebot.active_deals) THEN "deal" ELSE "housekeeping"
    /\ dealIdx' = dealIdx + 1
    /\ UNCHANGED <<config, cycles, interrupts, edits, botIdx, thebot,
                   deals_to_monitor, timeint, fetches, skipped>>

\* lines 163-168 without the botid of the WHERE clause: the rows of every
\* bot that are not in the list are deleted
HousekeepingAllBots ==
    /\ pc = "housekeeping"
    /\ IF Len(current_deals) > 0
       THEN /\ db' = [d \in DOMAIN db \cap SeqToSet(current_deals) |-> db[d]]
            /\ log' = Append(log, Statement("delete", 0))
       ELSE UNCHANGED <<db, log>>
    /\ persisted' = FileAfterExecute(persisted, db')
    /\ pc' = "commit"
    /\ UNCHANGED <<config, cycles, failures, interrupts, edits, platform, botIdx,
                   thebot, dealIdx, current_deals, monitored_deals,
                   deals_to_monitor, timeint, fetches, skipped, need>>

\* lines 163-168: housekeeping
Housekeeping ==
    /\ pc = "housekeeping"
    /\ IF Len(current_deals) > 0
       THEN /\ db' = DeleteExcept(db, thebot.id, current_deals)
            /\ log' = Append(log, Statement("delete", 0))
       ELSE UNCHANGED <<db, log>>
    /\ persisted' = FileAfterExecute(persisted, db')
    /\ pc' = "commit"
    /\ UNCHANGED <<config, cycles, failures, interrupts, edits, platform, botIdx,
                   thebot, dealIdx, current_deals, monitored_deals,
                   deals_to_monitor, timeint, fetches, skipped, need>>

\* line 170 moved before the housekeeping of lines 163-168
CommitBeforeHousekeeping ==
    /\ pc = "housekeeping"
    /\ persisted' = FileAfterCommit(persisted, db)
    /\ log' = Append(log, Statement("commit", 0))
    /\ pc' = "return"
    /\ UNCHANGED <<config, cycles, failures, interrupts, edits, platform, db,
                   botIdx, thebot, dealIdx, current_deals, monitored_deals,
                   deals_to_monitor, timeint, fetches, skipped, need>>

\* line 170: db.commit()
Commit ==
    /\ pc = "commit"
    /\ persisted' = FileAfterCommit(persisted, db)
    /\ log' = Append(log, Statement("commit", 0))
    /\ pc' = "return"
    /\ UNCHANGED <<config, cycles, failures, interrupts, edits, platform, db,
                   botIdx, thebot, dealIdx, current_deals, monitored_deals,
                   deals_to_monitor, timeint, fetches, skipped, need>>

\* lines 177 and 290: process_deals returns, the loop goes to the next bot
Return ==
    /\ pc = "return"
    /\ deals_to_monitor' = deals_to_monitor + monitored_deals
    /\ botIdx' = botIdx + 1
    /\ pc' = IF botIdx < Len(botids) THEN "fetch" ELSE "wait"
    \* the locals of process_deals end with the call
    /\ thebot' = NoBot
    /\ dealIdx' = 1
    /\ current_deals' = <<>>
    /\ monitored_deals' = 0
    /\ log' = <<>>
    /\ UNCHANGED <<config, cycles, failures, interrupts, edits, platform, db,
                   persisted, timeint, fetches, skipped, need>>

(* ----------------------------- main loop ------------------------------ *)
\* line 297 with the two intervals exchanged
TimeIntSwapped(to_monitor, check_interval, monitor_interval) ==
    IF to_monitor = 0 THEN monitor_interval ELSE check_interval

\* line 297
TimeInt(to_monitor, check_interval, monitor_interval) ==
    IF to_monitor = 0 THEN check_interval ELSE monitor_interval

\* lines 297-299: wait_time_interval sleeps and tells whether to go on
Wait ==
    /\ pc = "wait"
    /\ timeint' = TimeInt(deals_to_monitor, config.check_interval,
                          config.monitor_interval)
    /\ \E slept \in BOOLEAN : pc' = IF slept THEN "load" ELSE "stopped"
    /\ UNCHANGED <<config, cycles, failures, interrupts, edits, platform, db,
                   persisted, botIdx, thebot, dealIdx, current_deals,
                   monitored_deals, deals_to_monitor, log, fetches,
                   skipped, need>>

\* the process is killed and started again: the connection is lost with its
\* open transaction, lines 256-258 open the file as it was committed
Interrupt ==
    /\ pc # "stopped"
    /\ Disturbances < MaxDisturbances
    /\ interrupts' = interrupts + 1
    /\ db' = persisted
    /\ pc' = "load"
    /\ botIdx' = 1
    /\ thebot' = NoBot
    /\ dealIdx' = 1
    /\ current_deals' = <<>>
    /\ monitored_deals' = 0
    /\ deals_to_monitor' = 0
    /\ timeint' = 0
    /\ log' = <<>>
    /\ fetches' = [b \in BotSet |-> 0]
    /\ skipped' = {}
    /\ need' = 0
    /\ UNCHANGED <<config, cycles, failures, edits, platform, persisted>>

Next ==
    \/ LoadConfig
    \/ FetchFailed
    \/ FetchBot
    \/ ProcessDeal
    \/ Housekeeping
    \/ Commit
    \/ Return
    \/ Wait
    \/ Interrupt

Spec == Init /\ [][Next]_vars

\* the steps the interpreter takes by itself; a kill comes from outside
Step ==
    \/ LoadConfig
    \/ FetchFailed
    \/ FetchBot
    \/ ProcessDeal
    \/ Housekeeping
    \/ Commit
    \/ Return
    \/ Wait

\* the interpreter goes on while it has a step to take: api.request,
\* db.execute and wait_time_interval return
FairSpec == Init /\ [][Step]_vars /\ WF_vars(Step)

(* ------------------------------ claims -------------------------------- *)
\* a step of ProcessDeal: the for loop handled the deal at dealIdx
DealStep == pc = "deal" /\ dealIdx' = dealIdx + 1
\* the deal such a step handles
Cur == thebot.active_deals[dealIdx]
\* the deal handled last
Prev == thebot.active_deals[dealIdx - 1]
Handled == pc \in {"deal", "housekeeping"} /\ dealIdx > 1
\* the update_deal requests a step adds to the log
Issued == {log'[i] : i \in {j \in (Len(log) + 1)..Len(log') : log'[j].op = "update_deal"}}
\* the update_deal requests of the log for a deal
RequestsFor(d) ==
    {log[i] : i \in {j \in 1..Len(log) : log[j].op = "update_deal" /\ log[j].action_id = d}}
HasStatement(op, d) == \E i \in 1..Len(log) : log[i] = Statement(op, d)

\* C1: a deal without a row gets a row and a remote update in this cycle
\* iff its profit is at least the activation percentage (equality counts);
\* below it there is no row, no update and the deal is not counted; the
\* housekeeping of the cycle keeps the row.
C1_TrackedIffActivated ==
    [][ /\ (DealStep /\ Cur.id \notin DOMAIN db) =>
             LET qualifies == Cur.actual_profit_percentage >= config.activation_percentage
             IN  /\ (Cur.id \in DOMAIN db') <=> qualifies
                 /\ (\E r \in Issued : r.action_id = Cur.id) <=> qualifies
                 /\ qualifies => monitored_deals' = 1 /\ need' = need + 1
                 /\ ~qualifies => /\ Issued = {}
                                  /\ monitored_deals' = monitored_deals
                                  /\ need' = need
        /\ (pc = "housekeeping" /\ pc' = "commit") =>
             \A d \in SeqToSet(current_deals) \cap DOMAIN db :
                 d \in DOMAIN db' /\ db'[d] = db[d]
      ]_vars

\* a deal whose profit equals the activation percentage was inserted
C1_Witness ==
    /\ Handled
    /\ Prev.actual_profit_percentage = config.activation_percentage
    /\ HasStatement("insert", Prev.id)
    /\ Prev.id \in DOMAIN db

\* C2: every write of last_stop_loss_percentage of an existing row stores a
\* value at least as tight (less than or equal) as the one stored before.
C2_StopLossNeverLoosens ==
    [][ DealStep =>
          \A d \in DOMAIN db \cap DOMAIN db' :
              db'[d].last_stop_loss_percentage <= db[d].last_stop_loss_percentage
      ]_vars

\* C3: a remote update that fails leaves the store as it was: no row is
\* inserted and no row is updated.
C3_FailedUpdateLeavesStore ==
    [][ (DealStep /\ \E r \in Issued : ~r.ok) => db' = db ]_vars

\* the ids of the answer handed to process_deals
Listed == {thebot.active_deals[i].id : i \in 1..Len(thebot.active_deals)}
\* the ids a table holds for a bot
StoredFor(table, botid) == {d \in DOMAIN table : table[d].botid = botid}

C5_NoIncreaseNoChange ==
    [][ /\ (DealStep /\ Cur.id \in DOMAIN db
                     /\ Cur.actual_profit_percentage
                            <= db[Cur.id].last_profit_percentage) =>
             /\ Issued = {}
             /\ log' = log
             /\ platform' = platform
             /\ db' = db
             /\ persisted' = persisted
        /\ (pc = "housekeeping" /\ pc' = "commit") =>
             \A d \in Listed \cap DOMAIN db : d \in DOMAIN db' /\ db'[d] = db[d]
      ]_vars

\* a tracked deal reported below its recorded profit was passed over
C5_Witness ==
    /\ Handled
    /\ Prev.id \in DOMAIN db
    /\ Prev.actual_profit_percentage < db[Prev.id].last_profit_percentage
    /\ RequestsFor(Prev.id) = {}
    /\ ~HasStatement("update", Prev.id)

\* C6: after a cycle the loop waits check_interval iff no position of the
\* cycle was activated or tracked, and monitor_interval otherwise.
C6_WaitInterval ==
    (pc \in {"load", "stopped"} /\ timeint # 0) =>
        /\ timeint \in {config.check_interval, config.monitor_interval}
        /\ (timeint = config.check_interval) <=> (need = 0)
        /\ (timeint = config.monitor_interval) <=> (need # 0)

\* the loop waited monitor_interval after a cycle with two positions to monitor
C6_Witness ==
    /\ pc = "load"
    /\ timeint = config.monitor_interval
    /\ timeint # 0
    /\ need >= 2

\* C7: a failed fetch skips the bot: one request for it in the cycle, no
\* remote update, no change of the store, and the loop goes on to the bots
\* that follow, so that every bot was fetched once when the cycle ends.
C7_FailedFetchSkipsBot ==
    [][ /\ (skipped' # skipped /\ skipped' # {}) =>
             /\ skipped' = skipped \cup {botids[botIdx]}
             /\ fetches'[botids[botIdx]] = 1
             /\ log = <<>> /\ log' = <<>>
             /\ db' = db
             /\ persisted' = persisted
             /\ platform' = platform
             /\ pc' = IF botIdx < Len(botids) THEN "fetch" ELSE "wait"
        /\ (pc # "wait" /\ pc' = "wait") =>
             \A b \in BotSet : fetches'[b] = 1
      ]_vars

\* the fetch of bot 11 failed and bot 12 was processed in the same cycle
C7_Witness ==
    /\ pc = "wait"
    /\ skipped = {11}
    /\ fetches[12] = 1
    /\ 3 \in DOMAIN db

\* x, counted in hundredths, is the exact value e, counted in units of
\* 1/(100*FactorScale), at 2-decimal precision
TwoDecimalsOf(x, e) == 2 * (FactorScale * x - e) \in (0 - FactorScale)..FactorScale

\* C8: for a newly tracked deal the pushed and stored stop-loss is
\* -(initial_stoploss_percentage + activation_diff), the pushed take-profit
\* is take_profit + activation_diff * tp_increment_factor at 2 decimals, and
\* the inserted row holds the actual profit and the new stop-loss.
C8_NewDealValues ==
    [][ (DealStep /\ Cur.id \notin DOMAIN db
                  /\ Cur.actual_profit_percentage >= config.activation_percentage) =>
          LET activation_diff ==
                  Cur.actual_profit_percentage - config.activation_percentage
          IN  \E r \in Issued :
                /\ Issued = {r}
                /\ r.action_id = Cur.id
                /\ r.stop_loss_percentage =
                       0 - (config.initial_stoploss_percentage + activation_diff)
                /\ TwoDecimalsOf(r.take_profit,
                                 FactorScale * Cur.take_profit
                                   + activation_diff * config.tp_increment_factor)
                /\ Cur.id \in DOMAIN db'
                /\ db'[Cur.id] =
                       [botid |-> thebot.id,
                        last_profit_percentage |-> Cur.actual_profit_percentage,
                        last_stop_loss_percentage |-> r.stop_loss_percentage]
      ]_vars

\* activation 3.0, initial stop-loss 1.0, factor 0.5, profit 5.0 and
\* take-profit 2.0 gave stop-loss -3.0 and take-profit 3.0
C8_Witness ==
    /\ Handled
    /\ config.activation_percentage = 300
    /\ config.initial_stoploss_percentage = 100
    /\ config.tp_increment_factor = 5000
    /\ Prev.actual_profit_percentage = 500
    /\ Prev.take_profit = 200
    /\ HasStatement("insert", Prev.id)
    /\ \E r \in RequestsFor(Prev.id) :
           r.stop_loss_percentage = -300 /\ r.take_profit = 300
    /\ Prev.id \in DOMAIN db
    /\ db[Prev.id].last_profit_percentage = 500
    /\ db[Prev.id].last_stop_loss_percentage = -300

\* C9: for a tracked deal whose profit rose above the recorded one the pushed
\* stop-loss is the reported stop-loss minus profit_diff, the pushed
\* take-profit is the reported take-profit plus profit_diff *
\* tp_increment_factor at 2 decimals, and the row holds the actual profit and
\* the new stop-loss.
C9_TrackedDealValues ==
    [][ (DealStep /\ Cur.id \in DOMAIN db
                  /\ Cur.actual_profit_percentage
                         > db[Cur.id].last_profit_percentage) =>
          LET profit_diff ==
                  Cur.actual_profit_percentage - db[Cur.id].last_profit_percentage
          IN  \E r \in Issued :
                /\ Issued = {r}
                /\ r.action_id = Cur.id
                /\ r.stop_loss_percentage = Cur.stop_loss_percentage - profit_diff
                /\ TwoDecimalsOf(r.take_profit,
                                 FactorScale * Cur.take_profit
                                   + profit_diff * config.tp_increment_factor)
                /\ Cur.id \in DOMAIN db'
                /\ db'[Cur.id] =
                       [db[Cur.id] EXCEPT
                           !.last_profit_percentage = Cur.actual_profit_percentage,
                           !.last_stop_loss_percentage = r.stop_loss_percentage]
      ]_vars

\* profit 7.0 with stop-loss -3.0 and take-profit 3.0 reported gave stop-loss
\* -5.0 and take-profit 4.0 under factor 0.5 (the recorded profit was 5.0)
C9_Witness ==
    /\ Handled
    /\ config.tp_increment_factor = 5000
    /\ Prev.actual_profit_percentage = 700
    /\ Prev.stop_loss_percentage = -300
    /\ Prev.take_profit = 300
    /\ HasStatement("update", Prev.id)
    /\ \E r \in RequestsFor(Prev.id) :
           r.stop_loss_percentage = -500 /\ r.take_profit = 400
    /\ Prev.id \in DOMAIN db
    /\ db[Prev.id].last_profit_percentage = 700
    /\ db[Prev.id].last_stop_loss_percentage = -500

\* C10: the file changes at the commit of a bot-cycle only, and then to all
\* the changes of that bot-cycle; a kill of the process leaves the file as
\* it is, with what earlier bot-cycles committed, and the restarted process
\* sees the file.
C10_BotCycleAtomic ==
    [][ /\ persisted' # persisted =>
             pc = "commit" /\ pc' = "return" /\ persisted' = db
        /\ (pc = "commit" /\ pc' = "return") => persisted' = db /\ db' = db
        /\ interrupts' # interrupts => persisted' = persisted /\ db' = persisted
      ]_vars

\* the process was killed while bot 12 was processed: the row of deal 1,
\* committed for bot 11, is in the file and the row of deal 3 is not, though
\* the platform accepted the update of deal 3
C10_Witness ==
    /\ interrupts = 1
    /\ pc = "load"
    /\ cycles = 1
    /\ 1 \in DOMAIN persisted
    /\ 3 \notin DOMAIN persisted
    /\ platform[3].stop_loss_percentage # 0
    /\ db = persisted

\* the positions of the program inside a cycle, before the wait
InCycle == {"fetch", "deal", "housekeeping", "commit", "return"}

\* C11: the loop ends at the wait step only, never at a step where a fetch
\* or a remote update failed; a wait is followed by the reload of the
\* configuration that starts the next cycle, or by the end of the loop; and
\* every cycle, whatever failed in it, reaches the wait step unless the
\* process is killed.
C11_LoopSurvivesErrors ==
    /\ [][ /\ pc' = "stopped" => pc = "wait"
           /\ failures' # failures => pc' \in InCycle \cup {"wait"}
           /\ (pc = "wait" /\ interrupts' = interrupts) => pc' \in {"load", "stopped"}
           /\ (pc = "load" /\ pc' # "load") =>
                  /\ cycles' = cycles + 1
                  /\ config' \in Configs
                  /\ botIdx' = 1
                  /\ pc' = "fetch"
         ]_vars
    /\ (pc \in InCycle) ~> (pc = "wait")

\* a second cycle started after a cycle in which a remote call failed
C11_Witness ==
    /\ pc = "fetch"
    /\ botIdx = 1
    /\ cycles = 2
    /\ failures = 1
    /\ interrupts = 0

\* the positions in the log of the update_deal requests sent for deal d
RequestIdx(l, d) ==
    {j \in 1..Len(l) : l[j].op = "update_deal" /\ l[j].action_id = d}
\* the positions in the log of all the update_deal requests
AllRequestIdx(l) == {j \in 1..Len(l) : l[j].op = "update_deal"}

\* C12: the iteration for a deal sends one update_deal request, for that
\* deal, when the deal is newly activated or its profit rose above the
\* recorded one, and none otherwise; no other step of the bot-cycle sends
\* one; so when the for loop is over every listed deal has one request if
\* it changed, failed or not, and none if it did not.
C12_OneUpdatePerChange ==
    [][ /\ DealStep =>
             LET changed ==
                     IF Cur.id \in DOMAIN db
                     THEN Cur.actual_profit_percentage
                              > db[Cur.id].last_profit_percentage
                     ELSE Cur.actual_profit_percentage
                              >= config.activation_percentage
             IN  /\ SubSeq(log', 1, Len(log)) = log
                 /\ Cardinality(AllRequestIdx(log')) =
                        Cardinality(AllRequestIdx(log)) + (IF changed THEN 1 ELSE 0)
                 /\ Cardinality(RequestIdx(log', Cur.id)) =
                        IF changed THEN 1 ELSE 0
        /\ (pc \in {"housekeeping", "commit"} /\ interrupts' = interrupts) =>
             /\ AllRequestIdx(log') = AllRequestIdx(log)
             /\ \A d \in Listed : Cardinality(RequestIdx(log, d)) <= 1
             /\ \A j \in AllRequestIdx(log) : log[j].action_id \in Listed
      ]_vars

\* the for loop over two deals is over: the one request for deal 1 failed
\* and was not repeated, deal 2 did not change and has no request
C12_Witness ==
    /\ pc = "housekeeping"
    /\ Listed = {1, 2}
    /\ Cardinality(RequestIdx(log, 1)) = 1
    /\ \E j \in RequestIdx(log, 1) : ~log[j].ok
    /\ RequestIdx(log, 2) = {}

\* C13: every update_deal request names the deal it is sent for in both of
\* its id fields, and carries the stop-loss the iteration stored and a
\* take-profit the iteration computed.
C13_RequestNamesDeal ==
    [][ DealStep =>
          \A r \in Issued :
              /\ r.action_id = Cur.id
              /\ r.deal_id = Cur.id
              /\ Cur.id \in DOMAIN db'
              /\ r.stop_loss_percentage = db'[Cur.id].last_stop_loss_percentage
              /\ \E diff \in {Cur.actual_profit_percentage - config.activation_percentage}
                              \cup {Cur.actual_profit_percentage
                                      - db[x].last_profit_percentage :
                                          x \in DOMAIN db \cap {Cur.id}} :
                     r.take_profit \in RaisedTakeProfit(Cur.take_profit, diff,
                                                        config.tp_increment_factor)
      ]_vars

\* C14: in the log of a bot-cycle every INSERT or UPDATE of a deal comes
\* right after the update_deal request for that deal, every request is
\* followed by the statement of its deal, and the commit is the last entry,
\* after every request and after the housekeeping DELETE.
C14_UpdateBeforeStore ==
    /\ \A j \in 1..Len(log) :
          /\ log[j].op \in {"insert", "update"} =>
                /\ j > 1
                /\ log[j - 1].op = "update_deal"
                /\ log[j - 1].action_id = log[j].dealid
          /\ log[j].op = "update_deal" =>
                (j < Len(log) =>
                    /\ log[j + 1].op \in {"insert", "update"}
                    /\ log[j + 1].dealid = log[j].action_id)
          /\ log[j].op = "commit" =>
                /\ j = Len(log)
                /\ \E i \in 1..(j - 1) : log[i].op = "delete"
          /\ log[j].op = "delete" =>
                \A i \in (j + 1)..Len(log) : log[i].op = "commit"
    /\ pc = "return" /\ thebot.active_deals # <<>> =>
          /\ Len(log) >= 2
          /\ log[Len(log)].op = "commit"
          /\ log[Len(log) - 1].op = "delete"
    /\ pc \in {"deal", "housekeeping"} /\ Len(log) > 0 =>
          log[Len(log)].op \in {"insert", "update"}

\* both deals of bot 11 changed: request and statement of the first, request
\* and statement of the second, the DELETE, the commit
C14_Witness ==
    /\ pc = "return"
    /\ Len(log) = 6
    /\ log[1].op = "update_deal" /\ log[1].action_id = 1
    /\ log[2] = Statement("insert", 1)
    /\ log[3].op = "update_deal" /\ log[3].action_id = 2
    /\ log[4].op \in {"insert", "update"} /\ log[4].dealid = 2
    /\ log[5].op = "delete"
    /\ log[6].op = "commit"

\* C15: the count process_deals returns is 0 or 1: it starts at 0, an
\* iteration for a deal that is tracked or newly activated sets it to 1
\* whatever it was, any other iteration leaves it, and the value returned is
\* 1 iff some listed deal was tracked or newly activated; the main loop adds
\* that value.
C15_MonitoredZeroOrOne ==
    [][ /\ monitored_deals \in {0, 1}
        /\ monitored_deals' \in {0, 1}
        /\ (pc = "fetch" /\ pc' \in {"deal", "return"}) => monitored_deals' = 0
        /\ DealStep =>
              LET tracked == Cur.id \in DOMAIN db
                  activated == /\ Cur.id \notin DOMAIN db
                               /\ Cur.actual_profit_percentage
                                      >= config.activation_percentage
              IN  monitored_deals' =
                      IF tracked \/ activated THEN 1 ELSE monitored_deals
        /\ (pc = "return" /\ interrupts' = interrupts) =>
              /\ monitored_deals = IF Listed \cap DOMAIN db # {} THEN 1 ELSE 0
              /\ deals_to_monitor' = deals_to_monitor + monitored_deals
      ]_vars

\* process_deals returns 1 for a bot with two deals that are both tracked
C15_Witness ==
    /\ pc = "return"
    /\ Listed = {1, 2}
    /\ {1, 2} \subseteq DOMAIN db
    /\ monitored_deals = 1

\* the rows of t that a step to u removed, and the rows it changed
Removed(t, u) == DOMAIN t \ DOMAIN u
Changed(t, u) == {d \in DOMAIN t \cap DOMAIN u : u[d] # t[d]}

\* C16: a row leaves the table only in the housekeeping of a fetched bot
\* with the row's botid, and only if its deal is not in the answer of that
\* bot; a row changes only in the iteration for its own deal; no step of
\* process_deals removes or changes a row of another bot; the same holds for
\* the file, which follows at the commit.
C16_DeleteOwnClosedOnly ==
    [][ /\ interrupts' = interrupts =>
              /\ \A d \in Removed(db, db') :
                     /\ pc = "housekeeping"
                     /\ thebot.id \in BotSet
                     /\ db[d].botid = thebot.id
                     /\ d \notin Listed
              /\ \A d \in Changed(db, db') :
                     /\ DealStep
                     /\ d = Cur.id
                     /\ db[d].botid = thebot.id
                     /\ db'[d].botid = thebot.id
        /\ \A d \in Removed(persisted, persisted') :
               /\ pc = "commit"
               /\ thebot.id \in BotSet
               /\ persisted[d].botid = thebot.id
               /\ d \notin Listed
        /\ \A d \in Changed(persisted, persisted') :
               /\ pc = "commit"
               /\ persisted[d].botid = thebot.id
               /\ d \in Listed
      ]_vars

\* the housekeeping of bot 11 removed the row of a deal that left the
\* answer and kept the row bot 12 has for deal 3
C16_Witness ==
    /\ pc = "commit"
    /\ thebot.id = 11
    /\ \E d \in Removed(persisted, db) : persisted[d].botid = 11 /\ d \notin Listed
    /\ 3 \in DOMAIN db
    /\ db[3].botid = 12
    /\ db[3] = persisted[3]

\* the INSERT statements a step adds to the log
Inserted ==
    {log'[j].dealid : j \in {i \in (Len(log) + 1)..Len(log') : log'[i].op = "insert"}}

\* C17: an INSERT is executed only for a dealid the connection has no row
\* for, rows of the open transaction included, so it adds one row and
\* collides with none; a row is keyed by its dealid and belongs to the bot
\* that listed the deal.
C17_InsertOnlyWithoutRow ==
    [][ /\ \A d \in Inserted :
               /\ d \notin DOMAIN db
               /\ d \in DOMAIN db'
               /\ DOMAIN db' = DOMAIN db \cup {d}
               /\ Cardinality(DOMAIN db') = Cardinality(DOMAIN db) + 1
               /\ db'[d].botid = thebot.id
        /\ (DOMAIN db' \ DOMAIN db # {} /\ interrupts' = interrupts) =>
               DOMAIN db' \ DOMAIN db = Inserted
      ]_vars

\* the row of deal 2 was inserted while the row of deal 1, inserted in the
\* same bot-cycle, was not committed yet
C17_Witness ==
    /\ pc = "housekeeping"
    /\ HasStatement("insert", 1)
    /\ HasStatement("insert", 2)
    /\ {1, 2} \subseteq DOMAIN db
    /\ DOMAIN persisted \cap {1, 2} = {}

Max(a, b) == IF a >= b THEN a ELSE b

\* the high-water rule for a step from table t to table u: a row that is
\* created holds the profit of the answer, the row of the deal the
\* iteration handles holds the larger of its profit and the profit of the
\* answer, every other row keeps its profit
HighWater(t, u) ==
    /\ \A d \in DOMAIN u \ DOMAIN t :
           DealStep /\ d = Cur.id
                    /\ u[d].last_profit_percentage = Cur.actual_profit_percentage
    /\ \A d \in DOMAIN t \cap DOMAIN u :
           u[d].last_profit_percentage =
               IF DealStep /\ d = Cur.id
               THEN Max(t[d].last_profit_percentage, Cur.actual_profit_percentage)
               ELSE t[d].last_profit_percentage

\* C18 as stated: in every step the record of a position follows the
\* high-water rule, so that it always holds the largest profit the answers
\* reported for the position since the record was created.
C18_HighWaterMark ==
    [][ HighWater(db, db') ]_vars

\* C18 amended: the steps of the program follow the high-water rule; a kill
\* puts a record back to what the file holds, never above what the
\* connection held; in the file the profit of a record never decreases.
C18_HighWaterMarkUnlessKilled ==
    [][ /\ interrupts' = interrupts => HighWater(db, db')
        /\ interrupts' # interrupts =>
               \A d \in DOMAIN db \cap DOMAIN db' :
                   db'[d].last_profit_percentage <= db[d].last_profit_percentage
        /\ \A d \in DOMAIN persisted \cap DOMAIN persisted' :
               persisted'[d].last_profit_percentage
                   >= persisted[d].last_profit_percentage
      ]_vars

\* a record committed with profit 3.0 was raised to 7.0 by the answer of the
\* next cycle
C18_Witness ==
    /\ Handled
    /\ Prev.actual_profit_percentage = 700
    /\ HasStatement("update", Prev.id)
    /\ Prev.id \in DOMAIN db \cap DOMAIN persisted
    /\ db[Prev.id].last_profit_percentage = 700
    /\ persisted[Prev.id].last_profit_percentage = 300

\* the record of deal d in table t keeps the trailing distance of settings
\* cfg and agrees with the stop-loss the platform plat holds for the deal
Trailing(t, plat, cfg, d) ==
    /\ t[d].last_stop_loss_percentage + t[d].last_profit_percentage =
           cfg.activation_percentage - cfg.initial_stoploss_percentage
    /\ plat[d].stop_loss_percentage = t[d].last_stop_loss_percentage

\* a step keeps the trailing distance: a record it creates has it, and a
\* record that had it has it afterwards
KeepsTrailing ==
    \A d \in DOMAIN db' :
        (d \in DOMAIN db => Trailing(db, platform, config, d))
            => Trailing(db', platform', config', d)

\* C19 as stated: while the configuration was never edited, every step in
\* which no remote update fails keeps the trailing distance of every
\* record, so that with every update succeeding all records have it after
\* every cycle.
C19_TrailingDistanceConstant ==
    [][ (edits' = 0 /\ \A r \in Issued : r.ok) => KeepsTrailing ]_vars

\* C19 amended: the same for every step but a kill of the process, which
\* puts the records back to the file while the platform keeps the stop-loss
\* it accepted.
C19_TrailingDistanceUnlessKilled ==
    [][ (edits' = 0 /\ interrupts' = interrupts /\ \A r \in Issued : r.ok)
            => KeepsTrailing ]_vars

\* a record created at profit 3.0 with stop-loss -1.0 was moved to profit
\* 7.0 with stop-loss -5.0, accepted by the platform: the sum stays 2.0
C19_Witness ==
    /\ Handled
    /\ edits = 0 /\ failures = 0 /\ interrupts = 0
    /\ HasStatement("update", Prev.id)
    /\ Prev.id \in DOMAIN db \cap DOMAIN persisted
    /\ Trailing(persisted, [platform EXCEPT ![Prev.id].stop_loss_percentage = -100],
                config, Prev.id)
    /\ persisted[Prev.id].last_profit_percentage = 300
    /\ db[Prev.id].last_profit_percentage = 700
    /\ db[Prev.id].last_stop_loss_percentage = -500
    /\ Trailing(db, platform, config, Prev.id)
====
